---- MODULE Spec2Model ----
(***************************************************************************)
(* Model of src/src/extendable.js: the Extendable object with its three    *)
(* methods extend, override and create, the helper util.copyProperties,    *)
(* and the wrapper function that override installs.                        *)
(*                                                                         *)
(* The heap is a set of nodes (objects) with a [[Prototype]] link and a    *)
(* map of own properties, plus a table of function objects.  Every method  *)
(* call of the library is one action, since the code is synchronous.       *)
(***************************************************************************)
EXTENDS Integers, Sequences, FiniteSets, TLC

VARIABLES proto, own, funcs, last

vars == <<proto, own, funcs, last>>

(***************************************************************************)
(* Bounds of the exploration.                                              *)
(***************************************************************************)
\* objects created by extend/create, besides Extendable itself
MaxNodes == 2
\* wrapper functions created by override
MaxWrappers == 2

(***************************************************************************)
(* JavaScript values.                                                      *)
(***************************************************************************)
Undefined == [t |-> "undefined"]
Null == [t |-> "null"]
Num(n) == [t |-> "number", n |-> n]
Bool(b) == [t |-> "boolean", b |-> b]
Str(s) == [t |-> "string", s |-> s]
\* a reference to a function object of the table funcs
Fn(i) == [t |-> "function", id |-> i]
\* a reference to an object of the heap
Node(n) == [t |-> "node", ref |-> n]
\* an object literal handed to extend: its own enumerable properties and the
\* enumerable properties it inherits from its own prototype
Literal(o, i) == [t |-> "literal", own |-> o, inh |-> i]

\* the empty property map
NoProps == [k \in {} |-> Undefined]

\* typeof v
TypeOf(v) ==
  CASE v.t = "node" -> "object"
    [] v.t = "literal" -> "object"
    [] v.t = "null" -> "object"
    [] v.t = "closure" -> "function"
    [] OTHER -> v.t

\* ToBoolean(v), as used by `||` and `!`
Truthy(v) ==
  CASE v.t = "undefined" -> FALSE
    [] v.t = "null" -> FALSE
    [] v.t = "number" -> v.n # 0
    [] v.t = "boolean" -> v.b
    [] v.t = "string" -> v.s # ""
    [] OTHER -> TRUE

\* the characters of the strings that occur as property mappings
CharsOf(s) == IF s = "ab" THEN <<"a", "b">> ELSE <<>>

\* ToString(v), as used by string concatenation and by property keys
ToStr(v) ==
  CASE v.t = "string" -> v.s
    [] v.t = "number" -> ToString(v.n)
    [] v.t = "boolean" -> IF v.b THEN "true" ELSE "false"
    [] v.t = "null" -> "null"
    [] v.t = "undefined" -> "undefined"
    [] OTHER -> "[object]"

(***************************************************************************)
(* The function table.  Entries 1..3 are the methods of Extendable, the    *)
(* next ones are functions of the caller that occur as property values,    *)
(* and every successful override appends one wrapper.                      *)
(***************************************************************************)
FExtend == 1
FOverride == 2
FCreate == 3
\* function() { return "base"; }
FBase == 4
\* function() { return this.x; }
FReadX == 5

InitFuncs ==
  << [kind |-> "builtin", name |-> "extend"],
     [kind |-> "builtin", name |-> "override"],
     [kind |-> "builtin", name |-> "create"],
     [kind |-> "native", name |-> "base"],
     [kind |-> "native", name |-> "readX"] >>

\* the Extendable object itself
Root == 0
\* Object.prototype, the end of every chain
ObjectPrototype == -1

Nodes == DOMAIN proto

WrapperIds == {i \in DOMAIN funcs : funcs[i].kind = "wrapper"}

(***************************************************************************)
(* Property lookup.                                                        *)
(***************************************************************************)
HasOwn(n, k) == k \in DOMAIN own[n]

RECURSIVE Get(_, _)
\* n[k]: the own property, else the first match up the prototype chain
Get(n, k) ==
  IF n = ObjectPrototype THEN Undefined
  ELSE IF HasOwn(n, k) THEN own[n][k]
  ELSE Get(proto[n], k)

RECURSIVE Chain(_)
\* n followed by the objects of its prototype chain
Chain(n) == IF n = ObjectPrototype THEN <<>> ELSE <<n>> \o Chain(proto[n])

Ancestors(n) == {Chain(n)[i] : i \in 2..Len(Chain(n))}

\* m with key k set to v
Put(m, k, v) == [j \in DOMAIN m \cup {k} |-> IF j = k THEN v ELSE m[j]]

Init ==
  /\ proto = [n \in {Root} |-> ObjectPrototype]
  /\ own = [n \in {Root} |->
              [k \in {"extend", "override", "create"} |->
                 CASE k = "extend" -> Fn(FExtend)
                   [] k = "override" -> Fn(FOverride)
                   [] k = "create" -> Fn(FCreate)]]
  /\ funcs = InitFuncs
  /\ last = [op |-> "init", recv |-> Root, arg |-> <<>>, ret |-> Undefined,
             err |-> "none", log |-> <<>>]

(***************************************************************************)
(* util.copyProperties and what its for-in loop sees of a value.           *)
(***************************************************************************)
\* the keys of the characters of a string: "0", "1", ...
IndexKeys(s) == {ToString(i - 1) : i \in 1..Len(CharsOf(s))}

\* the keys `for (var prop in v)` enumerates: own and inherited enumerable ones
EnumKeys(v) ==
  CASE v.t = "literal" -> DOMAIN v.own \cup DOMAIN v.inh
    [] v.t = "string" -> IndexKeys(v.s)
    [] OTHER -> {}

\* a loop that copies every enumerated key
HasOwnPropertyAlways(v, k) == TRUE

\* v.hasOwnProperty(k)
HasOwnProperty(v, k) ==
  CASE v.t = "literal" -> k \in DOMAIN v.own
    [] v.t = "string" -> k \in IndexKeys(v.s)
    [] OTHER -> FALSE

\* v[k] for a key the loop enumerated
GetProp(v, k) ==
  CASE v.t = "literal" -> IF k \in DOMAIN v.own THEN v.own[k] ELSE v.inh[k]
    [] v.t = "string" ->
         Str(CharsOf(v.s)[CHOOSE i \in 1..Len(CharsOf(v.s)) : ToString(i - 1) = k])
    [] OTHER -> Undefined

\* the keys copyProperties copies from p_src
CopiedKeys(p_src) == {k \in EnumKeys(p_src) : HasOwnProperty(p_src, k)}

\* a copyProperties that rejects a source that is no object
CopyPropertiesStrict(p_src, p_dest, h) ==
  IF ~Truthy(p_dest) \/ (Truthy(p_src) /\ TypeOf(p_src) # "object")
  THEN [err |-> "Error", own |-> h]
  ELSE LET src == IF Truthy(p_src) THEN p_src ELSE Literal(NoProps, NoProps)
           d == p_dest.ref
       IN [err |-> "none",
           own |-> [h EXCEPT ![d] =
                      [k \in DOMAIN h[d] \cup DOMAIN src.own |->
                         IF k \in DOMAIN src.own THEN src.own[k] ELSE h[d][k]]]]

\* util.copyProperties(p_src, p_dest) on the heap h (a map of own properties):
\* the error it throws, if any, and the heap it leaves
CopyProperties(p_src, p_dest, h) ==
  IF ~Truthy(p_dest) THEN [err |-> "Error", own |-> h]
  ELSE LET src == IF Truthy(p_src) THEN p_src ELSE Literal(NoProps, NoProps)
           d == p_dest.ref
       IN [err |-> "none",
           own |-> [h EXCEPT ![d] =
                      [k \in DOMAIN h[d] \cup CopiedKeys(src) |->
                         IF k \in CopiedKeys(src) THEN GetProp(src, k)
                         ELSE h[d][k]]]]

(***************************************************************************)
(* Inputs of the caller.                                                   *)
(***************************************************************************)
EmptyLiteral == Literal(NoProps, NoProps)

\* { x: 1, m: function() { return this.x; }, 42: function() { return "base"; } }
BaseProps ==
  Literal([k \in {"x", "m", "42"} |->
             CASE k = "x" -> Num(1) [] k = "m" -> Fn(FReadX) [] k = "42" -> Fn(FBase)],
          NoProps)

\* an object with the own property x: 5 whose prototype is { m: function ... }
DerivedProps == Literal([k \in {"x"} |-> Num(5)], [k \in {"m"} |-> Fn(FBase)])

\* values handed to extend as p_props
PropsInputs ==
  {Undefined, Null, Num(42), Bool(TRUE), Str("ab"), EmptyLiteral, BaseProps, DerivedProps}

(***************************************************************************)
(* Extendable.extend and Extendable.create.                                *)
(***************************************************************************)
\* the new object made a sibling of `this` instead of its child
CreateProtoSibling(this) == proto[this]

\* the object a new object gets as its prototype: Object.create(this)
CreateProto(this) == this

\* the properties copied onto the extended object itself
ExtendDestBase(extendedObject, newObject) == extendedObject

\* the object extend copies the properties to: newObject
ExtendDest(extendedObject, newObject) == newObject

\* the next object identity
NewNode == Cardinality(Nodes)

\* b.extend(p)
Extend(b, p) ==
  /\ b \in Nodes
  /\ Get(b, "extend") = Fn(FExtend)
  /\ NewNode <= MaxNodes
  /\ LET p_props == IF Truthy(p) THEN p ELSE EmptyLiteral
         extendedObject == b
         newObject == NewNode
         h == [n \in Nodes \cup {newObject} |->
                 IF n = newObject THEN NoProps ELSE own[n]]
         r == CopyProperties(p_props, Node(ExtendDest(extendedObject, newObject)), h)
     IN /\ proto' = [n \in Nodes \cup {newObject} |->
                       IF n = newObject THEN CreateProto(extendedObject) ELSE proto[n]]
        /\ own' = r.own
        /\ last' = [op |-> "extend", recv |-> b, arg |-> p,
                    ret |-> IF r.err = "none" THEN Node(newObject) ELSE Undefined,
                    err |-> r.err, log |-> <<>>]
  /\ UNCHANGED funcs

\* b.create()
Create(b) ==
  /\ b \in Nodes
  /\ Get(b, "create") = Fn(FCreate)
  /\ NewNode <= MaxNodes
  /\ LET newObject == NewNode
     IN /\ proto' = [n \in Nodes \cup {newObject} |->
                       IF n = newObject THEN CreateProto(b) ELSE proto[n]]
        /\ own' = [n \in Nodes \cup {newObject} |->
                     IF n = newObject THEN NoProps ELSE own[n]]
        /\ last' = [op |-> "create", recv |-> b, arg |-> Undefined,
                    ret |-> Node(newObject), err |-> "none", log |-> <<>>]
  /\ UNCHANGED funcs

(***************************************************************************)
(* Functions the caller hands to override as p_newMethod.                  *)
(***************************************************************************)
Repls ==
  << \* function(p_super, a, b) { return p_super(a, b) + "-derived"; }
     [kind |-> "derive", tag |-> "-derived"],
     \* function(p_super) { return p_super(9) + p_super(); }
     [kind |-> "twice", tag |-> ""] >>

ReplIds == DOMAIN Repls

\* values handed to override as p_methodName
MethodNames == {Str("m"), Str("x"), Num(42)}

\* argument lists of the method calls
ArgLists == {<<Num(7), Num(8)>>}

\* keys the caller invokes as methods
CallKeys == {"m"}

(***************************************************************************)
(* Calling a function value.                                               *)
(***************************************************************************)
\* v[k] for a `this` value
GetOf(v, k) == IF v.t = "node" THEN Get(v.ref, k) ELSE Undefined

\* a call event of the log: which function ran, its `this`, its arguments and
\* the value it returned
Event(who, id, thisv, args, ret) ==
  [who |-> who, id |-> id, this |-> thisv, args |-> args, ret |-> ret]

\* the nested function overridenWrapper of one call of wrapper w: it closes
\* over overriddenFunction (a variable of the override call that made w) and
\* over obj
Closure(w, obj) == [t |-> "closure", w |-> w, obj |-> obj]

\* the wrapper that binds the declaring object instead of the receiver
WrapperObjDeclared(w, thisv) == Node(funcs[w].object)

\* `var obj = this` in the wrapper: the receiver of the call
WrapperObj(w, thisv) == thisv

\* the overridden function looked up again at every call, above the object
\* the override was declared on
OverriddenFunctionLate(w) == Get(proto[funcs[w].object], funcs[w].p_methodName)

\* the function overridenWrapper applies: the variable overriddenFunction of
\* the override call that made wrapper w
OverriddenFunction(w) == funcs[w].overriddenFunction

\* the `this` overridenWrapper applies overriddenFunction with
SuperThis(obj, thisv) == obj

\* the wrapper that forgets to prepend the super function
WrapperArgsPlain(super, args) == args

\* args.splice(0, 0, overridenWrapper) on the sliced arguments
WrapperArgs(super, args) == <<super>> \o args

\* what the wrapper returns, given what p_newMethod returned
WrapperReturn(v) == v

\* a + b on JavaScript values, string concatenation in every use made here
Plus(a, b) == Str(ToStr(a) \o ToStr(b))

RECURSIVE Apply(_, _, _)
\* f.apply(thisv, args): the value returned, the error thrown if any, and the
\* calls made, in order
Apply(f, thisv, args) ==
  IF TypeOf(f) # "function"
  THEN [ret |-> Undefined, err |-> "TypeError", log |-> <<>>]
  ELSE IF f.t = "closure"
  THEN \* overridenWrapper: return overriddenFunction.apply(obj, arguments)
       Apply(OverriddenFunction(f.w), SuperThis(f.obj, thisv), args)
  ELSE LET fo == funcs[f.id]
       IN CASE fo.kind = "native" ->
                 LET v == IF fo.name = "base" THEN Str("base") ELSE GetOf(thisv, "x")
                 IN [ret |-> v, err |-> "none",
                     log |-> <<Event("fn", f.id, thisv, args, v)>>]
            [] fo.kind = "wrapper" ->
                 LET obj == WrapperObj(f.id, thisv)
                     a == WrapperArgs(Closure(f.id, obj), args)
                     r == fo.p_newMethod
                     \* the first parameter of the new method and the others
                     p_super == IF Len(a) > 0 THEN a[1] ELSE Undefined
                     rest == IF Len(a) > 0 THEN Tail(a) ELSE <<>>
                     kind == Repls[r].kind
                     s1 == Apply(p_super, Undefined,
                                 IF kind = "derive" THEN rest ELSE <<Num(9)>>)
                     s2 == Apply(p_super, Undefined, <<>>)
                     \* p_newMethod.apply(obj, args)
                     rr == IF s1.err # "none"
                           THEN [ret |-> Undefined, err |-> s1.err, log |-> s1.log]
                           ELSE IF kind = "derive"
                           THEN [ret |-> Plus(s1.ret, Str(Repls[r].tag)),
                                 err |-> "none", log |-> s1.log]
                           ELSE IF s2.err # "none"
                           THEN [ret |-> Undefined, err |-> s2.err,
                                 log |-> s1.log \o s2.log]
                           ELSE [ret |-> Plus(s1.ret, s2.ret), err |-> "none",
                                 log |-> s1.log \o s2.log]
                     v == IF rr.err = "none" THEN WrapperReturn(rr.ret) ELSE Undefined
                 IN [ret |-> v, err |-> rr.err,
                     log |-> <<Event("fn", f.id, thisv, args, v),
                               Event("repl", r, obj, a, rr.ret)>> \o rr.log]
            [] OTHER ->
                 [ret |-> Undefined, err |-> "unsupported", log |-> <<>>]

(***************************************************************************)
(* Extendable.override.                                                    *)
(***************************************************************************)
\* the property key a value names: object[p_methodName]
ToPropertyKey(v) == ToStr(v)

\* override without the check of the type of the name
OverrideErrorUntyped(p_methodName, overriddenFunction) ==
  IF TypeOf(overriddenFunction) # "function" THEN "Error" ELSE "none"

\* the error override throws for a method name and the value found at it
OverrideError(p_methodName, overriddenFunction) ==
  IF TypeOf(p_methodName) # "string" THEN "TypeError"
  ELSE IF TypeOf(overriddenFunction) # "function" THEN "Error"
  ELSE "none"

RECURSIVE Unwrapped(_)
\* the function under all the wrappers around f
Unwrapped(f) ==
  IF f.t = "function" /\ funcs[f.id].kind = "wrapper"
  THEN Unwrapped(funcs[f.id].overriddenFunction)
  ELSE f

\* the capture that skips the wrappers already installed
CapturedRootOriginal(object, key) == Unwrapped(Get(object, key))

\* `var overriddenFunction = object[p_methodName]`
CapturedFunction(object, key) == Get(object, key)

RECURSIVE Owner(_, _)
\* the object of the chain of n that holds key k as an own property
Owner(n, k) ==
  IF proto[n] = ObjectPrototype \/ HasOwn(n, k) THEN n ELSE Owner(proto[n], k)

\* the override that rewrites the method where it is defined
OverrideTargetOwner(object, key) == Owner(object, key)

\* the object override installs the wrapper on: `object[p_methodName] = ...`
OverrideTarget(object, key) == object

\* t.override(mn, r)
Override(t, mn, r) ==
  /\ t \in Nodes
  /\ Get(t, "override") = Fn(FOverride)
  /\ LET object == t
         key == ToPropertyKey(mn)
         overriddenFunction == CapturedFunction(object, key)
         e == OverrideError(mn, overriddenFunction)
         w == Len(funcs) + 1
         d == OverrideTarget(object, key)
     IN IF e # "none"
        THEN /\ last' = [op |-> "override", recv |-> t, arg |-> <<mn>>,
                         ret |-> Undefined, err |-> e, log |-> <<>>]
             /\ UNCHANGED <<proto, own, funcs>>
        ELSE /\ Cardinality(WrapperIds) < MaxWrappers
             /\ funcs' = Append(funcs,
                            [kind |-> "wrapper", object |-> object,
                             p_methodName |-> key,
                             overriddenFunction |-> overriddenFunction,
                             p_newMethod |-> r])
             /\ own' = [own EXCEPT ![d] = Put(own[d], key, Fn(w))]
             /\ last' = [op |-> "override", recv |-> t, arg |-> <<mn, r>>,
                         ret |-> Node(object), err |-> "none", log |-> <<>>]
             /\ UNCHANGED proto

\* n[k](args...)
Invoke(n, k, args) ==
  /\ n \in Nodes
  /\ LET c == Apply(Get(n, k), Node(n), args)
     IN last' = [op |-> "invoke", recv |-> n, arg |-> <<k, args>>,
                 ret |-> c.ret, err |-> c.err, log |-> c.log]
  /\ UNCHANGED <<proto, own, funcs>>

Next ==
  \/ \E b \in Nodes, p \in PropsInputs : Extend(b, p)
  \/ \E b \in Nodes : Create(b)
  \/ \E t \in Nodes, mn \in MethodNames, r \in ReplIds : Override(t, mn, r)
  \/ \E n \in Nodes, k \in CallKeys, args \in ArgLists : Invoke(n, k, args)

Spec == Init /\ [][Next]_vars

(***************************************************************************)
(* Properties of the wrapper call.                                         *)
(***************************************************************************)
IsWrapper(f) == f.t = "function" /\ funcs[f.id].kind = "wrapper"

\* the last step called a method that resolved to a wrapper
WrapperInvoked == last.op = "invoke" /\ IsWrapper(Get(last.recv, last.arg[1]))

\* the wrappers declared on object n for key k
WrappersOn(n, k) ==
  {w \in WrapperIds : funcs[w].object = n /\ funcs[w].p_methodName = k}

Max(S) == CHOOSE x \in S : \A y \in S : y <= x

\* C1: every function that runs during R.m(...) through a wrapper (the
\* wrapper, the new method, and every overridden function reached by a super
\* call) runs with `this` = R; the super function handed to the new method is
\* bound to R; so an overridden function that reads this.x sees the x of R.
C1_ReceiverIsCaller ==
  WrapperInvoked =>
    \A i \in DOMAIN last.log :
      LET e == last.log[i]
      IN /\ e.this = Node(last.recv)
         /\ e.who = "repl" =>
              /\ Len(e.args) > 0
              /\ e.args[1].t = "closure"
              /\ e.args[1].obj = Node(last.recv)
         /\ (e.who = "fn" /\ e.id = FReadX) => e.ret = Get(last.recv, "x")

\* R.m() where the override was declared on another object D, the base holds
\* x = 1 and R its own x = 5: the super call read 5
C1_Witness ==
  /\ WrapperInvoked
  /\ LET w == Get(last.recv, "m").id
     IN /\ funcs[w].object # last.recv
        /\ Get(funcs[w].object, "x") = Num(1)
        /\ HasOwn(last.recv, "x")
        /\ own[last.recv]["x"] = Num(5)
        /\ funcs[w].overriddenFunction = Fn(FReadX)
        /\ Repls[funcs[w].p_newMethod].kind = "derive"
  /\ last.ret = Str("5-derived")

\* C2: overrides of one key on one object form a linear chain in declaration
\* order: the own key holds the latest wrapper, every wrapper's overridden
\* function is the wrapper declared just before it on that object and key, and
\* the first one's is no wrapper of that object; a call runs them in that order.
C2_LinearChain ==
  /\ \A w \in WrapperIds :
       LET n == funcs[w].object
           k == funcs[w].p_methodName
           before == {v \in WrappersOn(n, k) : v < w}
       IN /\ own[n][k] = Fn(Max(WrappersOn(n, k)))
          /\ before # {} => funcs[w].overriddenFunction = Fn(Max(before))
          /\ before = {} =>
               ~(IsWrapper(funcs[w].overriddenFunction)
                 /\ funcs[w].overriddenFunction.id \in WrappersOn(n, k))
  /\ WrapperInvoked =>
       \A i \in DOMAIN last.log :
         (last.log[i].who = "repl" /\ i < Len(last.log)) =>
            /\ last.log[i + 1].who = "fn"
            /\ Fn(last.log[i + 1].id)
                 = funcs[last.log[i].args[1].w].overriddenFunction

\* two overrides on one object, then a call through it: the new method of the
\* second ran first, its super ran the first wrapper, whose super ran the
\* function found before the first override
C2_Witness ==
  /\ WrapperInvoked
  /\ last.err = "none"
  /\ LET w2 == Get(last.recv, "m").id
     IN /\ IsWrapper(funcs[w2].overriddenFunction)
        /\ LET w1 == funcs[w2].overriddenFunction.id
           IN /\ funcs[w1].object = funcs[w2].object
              /\ funcs[w1].overriddenFunction = Fn(FReadX)
              /\ Len(last.log) >= 5
              /\ last.log[1].id = w2
              /\ last.log[3].id = w1
              /\ last.log[5].id = FReadX

\* C3: the overridden function is read once, by override, as object[key] of that
\* moment, and no later step changes which function a wrapper's super calls
C3_CapturedOnce ==
  [][/\ \A w \in WrapperIds : OverriddenFunction(w)' = OverriddenFunction(w)
     /\ (last'.op = "override" /\ last'.err = "none") =>
          /\ Len(funcs') = Len(funcs) + 1
          /\ \A w \in {Len(funcs) + 1} :
               OverriddenFunction(w)' = Get(last'.recv, ToStr(last'.arg[1]))
    ]_vars

\* D.m() after D's override was followed by an override of m on an ancestor
\* of D: the super of D's wrapper still ran the function captured first
C3_Witness ==
  /\ WrapperInvoked
  /\ last.err = "none"
  /\ LET w == Get(last.recv, "m").id
     IN /\ funcs[w].object = last.recv
        /\ funcs[w].overriddenFunction = Fn(FReadX)
        /\ \E v \in WrapperIds :
             /\ v > w
             /\ funcs[v].object \in Ancestors(last.recv)
             /\ Get(proto[last.recv], "m") = Fn(v)
        /\ last.log[3].id = FReadX

\* C4: a wrapper called with (a1..aN) calls the new method exactly once, with
\* (super, a1..aN), and returns what it returns; the super function passes its
\* arguments unchanged to the overridden function and returns its result
C4_InvocationContract ==
  WrapperInvoked =>
    LET log == last.log
    IN /\ last.err = "none"
       /\ log[1] = Event("fn", Get(last.recv, last.arg[1]).id, Node(last.recv),
                         last.arg[2], last.ret)
       /\ \A i \in DOMAIN log :
            /\ (log[i].who = "fn" /\ funcs[log[i].id].kind = "wrapper") =>
                 /\ i < Len(log)
                 /\ log[i + 1].who = "repl"
                 /\ log[i + 1].id = funcs[log[i].id].p_newMethod
                 /\ log[i + 1].args
                      = <<Closure(log[i].id, log[i].this)>> \o log[i].args
                 /\ log[i + 1].ret = log[i].ret
            /\ log[i].who = "repl" =>
                 /\ i > 1
                 /\ log[i - 1].who = "fn"
                 /\ funcs[log[i - 1].id].kind = "wrapper"
                 /\ i < Len(log)
                 /\ log[i + 1].who = "fn"
                 /\ IF Repls[log[i].id].kind = "derive"
                    THEN /\ log[i + 1].args = Tail(log[i].args)
                         /\ log[i].ret = Plus(log[i + 1].ret, Str("-derived"))
                    ELSE /\ log[i + 1].args = <<Num(9)>>
                         /\ \E j \in (i + 2)..Len(log) :
                              /\ log[j].who = "fn"
                              /\ log[j].id = log[i + 1].id
                              /\ log[j].args = <<>>
                              /\ log[i].ret = Plus(log[i + 1].ret, log[j].ret)

\* B holds m reading x = 1, D = B.extend({}), D.override("m", derive), and
\* D.m(7, 8) returned "1-derived" with the overridden m called with (7, 8)
C4_Witness ==
  /\ WrapperInvoked
  /\ last.arg[2] = <<Num(7), Num(8)>>
  /\ last.ret = Str("1-derived")
  /\ Len(last.log) = 3
  /\ last.log[3] = Event("fn", FReadX, Node(last.recv), <<Num(7), Num(8)>>, Num(1))
  /\ own[last.recv] = [k \in {"m"} |-> Fn(Len(funcs))]

(***************************************************************************)
(* Properties of extend, override and create.                              *)
(***************************************************************************)
\* the property keys that occur
Keys == {"extend", "override", "create", "x", "m", "42", "0", "1"}

\* the step left every object that existed before it as it was
OldNodesUnchanged == \A n \in Nodes : own'[n] = own[n] /\ proto'[n] = proto[n]

\* C5: B.extend(P) for an object P (or nothing) returns a new object N, not B,
\* whose prototype is B, that holds every own enumerable key of P with P's
\* value, and through which every other key reads as through B
C5_ExtendResult ==
  [][(last'.op = "extend" /\ (last'.arg.t = "literal" \/ ~Truthy(last'.arg))) =>
       /\ last'.err = "none"
       /\ last'.ret.t = "node"
       /\ \A N \in {last'.ret.ref}, B \in {last'.recv},
             P \in {IF Truthy(last'.arg) THEN last'.arg ELSE EmptyLiteral} :
            /\ N \notin Nodes
            /\ N \in DOMAIN proto'
            /\ N # B
            /\ proto'[N] = B
            /\ \A k \in DOMAIN P.own :
                 k \in DOMAIN own'[N] /\ own'[N][k] = P.own[k]
            /\ \A k \in Keys \ DOMAIN P.own :
                 k \notin DOMAIN own'[N] /\ Get(N, k)' = Get(B, k)'
    ]_vars

\* an object that reaches m was extended with { x: 5 }, an object that also
\* inherits an m of its own: the new object holds x, and m reads as through B
C5_Witness ==
  /\ last.op = "extend"
  /\ last.arg = DerivedProps
  /\ Get(last.recv, "m") = Fn(FReadX)
  /\ own[last.ret.ref] = [k \in {"x"} |-> Num(5)]
  /\ Get(last.ret.ref, "m") = Fn(FReadX)

\* C6: a successful t.override(name, f) sets the one own key name of t to a
\* new wrapper, also when t only inherited the method, changes no other own key
\* of t and no other object, and returns t
C6_OverrideFrame ==
  [][(last'.op = "override" /\ last'.err = "none") =>
       \A t \in {last'.recv}, k \in {ToStr(last'.arg[1])} :
         /\ proto' = proto
         /\ \A n \in Nodes \ {t} : own'[n] = own[n]
         /\ DOMAIN own'[t] = DOMAIN own[t] \cup {k}
         /\ \A j \in DOMAIN own[t] \ {k} : own'[t][j] = own[t][j]
         /\ Len(funcs') = Len(funcs) + 1
         /\ own'[t][k] = Fn(Len(funcs'))
         /\ funcs'[Len(funcs')].kind = "wrapper"
         /\ last'.ret = Node(t)
    ]_vars

\* the override of m on an object that holds only x itself and found m on its
\* prototype: it now holds the wrapper as its own m
C6_Witness ==
  /\ last.op = "override"
  /\ last.err = "none"
  /\ last.recv # Root
  /\ DOMAIN own[last.recv] = {"x", "m"}
  /\ own[last.recv]["x"] = Num(5)
  /\ WrappersOn(last.recv, "m") = {Len(funcs)}
  /\ own[last.recv]["m"] = Fn(Len(funcs))
  /\ funcs[Len(funcs)].overriddenFunction = Get(proto[last.recv], "m")
  /\ last.ret = Node(last.recv)

\* C7: override throws at once a TypeError when the name is no string,
\* whatever is found at that key, and an Error when the name is a string and
\* the value found at it is no function; both leave every object as it was
C7_OverrideErrors ==
  [][last'.op = "override" =>
       \A t \in {last'.recv}, mn \in {last'.arg[1]} :
         /\ TypeOf(mn) # "string" =>
              /\ last'.err = "TypeError"
              /\ UNCHANGED <<proto, own, funcs>>
         /\ (TypeOf(mn) = "string" /\ TypeOf(Get(t, ToStr(mn))) # "function") =>
              /\ last'.err = "Error"
              /\ UNCHANGED <<proto, own, funcs>>
    ]_vars

\* override(42, f) on an object that reaches a function at the key "42":
\* it threw the TypeError
C7_Witness ==
  /\ last.op = "override"
  /\ last.arg[1] = Num(42)
  /\ TypeOf(Get(last.recv, "42")) = "function"
  /\ last.err = "TypeError"

\* C8: extend leaves every existing object, the base among them, as it was,
\* and an override on an object changes no key read through any object that
\* does not delegate to it, its ancestors among them
C8_BaseUntouched ==
  [][/\ last'.op = "extend" => OldNodesUnchanged /\ funcs' = funcs
     /\ (last'.op = "override" /\ <<own, proto>>' # <<own, proto>>) =>
          \A b \in Nodes \ {last'.recv} :
            last'.recv \notin Ancestors(b) =>
              \A k \in Keys : Get(b, k)' = Get(b, k)
    ]_vars

\* a base whose own x is 5 was extended with a mapping that sets x to 1 and
\* m and 42: the base still holds x = 5 alone
C8_Witness ==
  /\ last.op = "extend"
  /\ last.arg = BaseProps
  /\ last.recv # Root
  /\ own[last.recv] = [k \in {"x"} |-> Num(5)]
  /\ own[last.ret.ref]["x"] = Num(1)

C10_CreateIsEmptyExtend ==
  [][(last'.op = "create"
        \/ (last'.op = "extend" /\ last'.arg \in {Undefined, EmptyLiteral})) =>
       /\ last'.err = "none"
       /\ last'.ret.t = "node"
       /\ OldNodesUnchanged
       /\ funcs' = funcs
       /\ \A N \in {last'.ret.ref}, B \in {last'.recv} :
            /\ N \notin Nodes
            /\ DOMAIN proto' = Nodes \cup {N}
            /\ N # B
            /\ own'[N] = NoProps
            /\ proto'[N] = B
            /\ \A k \in Keys : Get(N, k)' = Get(B, k)'
            /\ Get(N, "extend")' = Fn(FExtend)
            /\ Get(N, "override")' = Fn(FOverride)
            /\ Get(N, "create")' = Fn(FCreate)
    ]_vars

\* create() on an object that holds a wrapper as its own m: the new object
\* holds nothing and reaches that wrapper
C10_Witness ==
  /\ last.op = "create"
  /\ last.recv # Root
  /\ HasOwn(last.recv, "m")
  /\ IsWrapper(own[last.recv]["m"])
  /\ own[last.ret.ref] = NoProps
  /\ Get(last.ret.ref, "m") = own[last.recv]["m"]

====
